---- MODULE Spec2Model ----
(***************************************************************************)
(* Model of unicycle's Store, Subscription and combined_store              *)
(* (src/unicycle/store.py).                                                *)
(*                                                                         *)
(* The system is one combined store "combined" that owns two plain child   *)
(* stores, named "counter" and "mirror" as in the decorator's keyword      *)
(* arguments.  The class of each child is drawn at construction from a     *)
(* small catalogue of store classes.  Callers dispatch actions into any of *)
(* the three stores, open and leave subscription scopes, and consumers     *)
(* read subscriptions with __anext__.                                      *)
(***************************************************************************)
EXTENDS Integers, Sequences, FiniteSets, TLC

\* ------------------------------------------------------------------ bounds
\* Subscriptions created in a run.
MaxSubs == 2
\* Operations in a run: dispatch calls, scope entries, scope exits,
\* __anext__ calls and refused operations.
MaxSteps == 5
\* Largest explicit initial state handed to a constructor.
MaxInitial == 2

\* --------------------------------------------------------------- universe
Parent == "combined"
ChildNames == <<"counter", "mirror">>
Children == {ChildNames[i] : i \in 1..Len(ChildNames)}
Stores == Children \cup {Parent}
SubIds == 1..MaxSubs

LATEST == "latest"
EVERY == "every"
SubscriptionStrategy == {LATEST, EVERY}

Actions == {"Increment", "Decrement"}

\* The `...` default of initial_state, and an explicitly supplied value.
Ellipsis == [given |-> FALSE]
Explicit(v) == [given |-> TRUE, value |-> v]

\* -------------------------------------------------- reducers and classes
\* Bodies of the reducer methods used by the catalogue of store classes.
\* A body either returns a new state computed from self.state or raises.
Raises(fn, st, action) == fn = "boom"

Apply(fn, st, action) ==
    CASE fn = "inc" -> st + 1
      [] fn = "dec" -> st - 1
      [] fn = "dbl" -> st * 2

\* Attribute names in the order inspect.getmembers returns them (sorted).
NameOrder == <<"add", "decrement", "double", "increment", "increment_again",
               "step", "validate", "widen">>
NameRank(n) == CHOOSE i \in 1..Len(NameOrder) : NameOrder[i] = n

H(name, tags, fn) == [name |-> name, action_type |-> tags, fn |-> fn]

\* Store classes: class-level default state and the @reducer methods in
\* the order the class body declares them.
StoreClasses ==
    [ CounterStore |->
        [has_default |-> TRUE, default |-> 0, handlers |->
            << H("increment", {"Increment"}, "inc"),
               H("decrement", {"Decrement"}, "dec") >>],
      MirrorStore |->
        [has_default |-> TRUE, default |-> 0, handlers |->
            << H("increment", {"Increment"}, "dec"),
               H("decrement", {"Decrement"}, "inc") >>],
      DoubleCounter |->
        [has_default |-> TRUE, default |-> 0, handlers |->
            << H("increment", {"Increment"}, "inc"),
               H("increment_again", {"Increment"}, "inc") >>],
      ActionCounter |->
        [has_default |-> TRUE, default |-> 0, handlers |->
            << H("increment", {"Increment", "Decrement"}, "inc") >>],
      ScaleStore |->
        [has_default |-> TRUE, default |-> 1, handlers |->
            << H("step", {"Increment"}, "inc"),
               H("double", {"Increment"}, "dbl") >>],
      GuardedStore |->
        [has_default |-> TRUE, default |-> 0, handlers |->
            << H("add", {"Increment", "Decrement"}, "inc"),
               H("validate", {"Decrement"}, "boom"),
               H("widen", {"Decrement"}, "dbl") >>],
      NoInitialStateStore |->
        [has_default |-> FALSE, default |-> 0, handlers |-> << >>] ]

\* combined_store(CombinedState, counter=..., mirror=...) instances checked.
\* The constructions checked: the substore classes given to the decorator
\* and the argument passed to the combined store's constructor.
Constructions ==
    { [classes |-> [counter |-> "ScaleStore", mirror |-> "MirrorStore"],
       initial_state |-> Explicit([counter |-> 2, mirror |-> 3])],
      [classes |-> [counter |-> "GuardedStore", mirror |-> "MirrorStore"],
       initial_state |-> Ellipsis],
      [classes |-> [counter |-> "CounterStore", mirror |-> "GuardedStore"],
       initial_state |-> Ellipsis] }

\* The stores application code holds a reference to: the combined store
\* and its first substore.  The second substore is reached only through
\* the combined store.
Accessible == {Parent, ChildNames[1]}

\* isinstance(action, action_type); action_type is a class or a tuple.
IsInstance(action, action_type) == action \in action_type

\* ------------------------------------------------------------- variables
VARIABLES
    cls,                \* child name -> name of its store class
    reducers,           \* Store._reducers of each child
    initial,            \* state of each store right after construction
    state,              \* Store.state
    subscriptions,      \* Store._subscriptions, keys in insertion order
    owner,              \* subscription -> store it was created on
    strategy,           \* Subscription._strategy
    scope,              \* "none" | "open" | "exited" | "failed"
    queue,              \* Subscription._queue
    notification_event, \* whether Subscription._notification_event is set
    pc,                 \* position of the consumer inside __anext__
    got,                \* items __anext__ has returned, in order
    pushed,             \* items _notify was called with, in order
    attachedAt,         \* length of the store's log when the sub attached
    log,                \* (state, action) of every dispatch that notified
    hist,               \* every dispatch call a store received
    last,               \* the most recent top-level dispatch call, with
                        \* the trace of what it did, in order
    ndispatch,          \* number of top-level dispatch calls so far
    call                \* the most recent call other than dispatch, and
                        \* how many such calls were made

vars == <<cls, reducers, initial, state, subscriptions, owner, strategy,
          scope, queue, notification_event, pc, got, pushed, attachedAt,
          log, hist, last, ndispatch, call>>

config == <<cls, reducers, initial>>
subvars == <<owner, strategy, scope, attachedAt>>

\* ----------------------------------------------------------- construction
Range(f) == {f[i] : i \in DOMAIN f}
Last(q) == q[Len(q)]

\* Variant: the registry lists the reducers as the class body declares them.
BuildReducersDeclared(handlers) == handlers

\* Store.__init__: the registry lists the reducer members in the order
\* inspect.getmembers yields them, which is sorted by attribute name.
BuildReducers(handlers) ==
    [i \in 1..Len(handlers) |->
        CHOOSE h \in Range(handlers) :
            Cardinality({g \in Range(handlers) :
                            NameRank(g.name) < NameRank(h.name)}) = i - 1]

\* Variant: a class-level default wins over the explicit value.
initialize_state_default_first(class, initial_state) ==
    IF class.has_default
    THEN [ok |-> TRUE, state |-> class.default]
    ELSE IF initial_state.given
         THEN [ok |-> TRUE, state |-> initial_state.value]
         ELSE [ok |-> FALSE, state |-> 0]

\* Store._initialize_state: explicit value, else class default, else error.
initialize_state(class, initial_state) ==
    IF initial_state.given
    THEN [ok |-> TRUE, state |-> initial_state.value]
    ELSE IF class.has_default
         THEN [ok |-> TRUE, state |-> class.default]
         ELSE [ok |-> FALSE, state |-> 0]

\* CombinedState(**substates): the named tuple built from the substates.
combine_states(substates) ==
    [counter |-> substates["counter"], mirror |-> substates["mirror"]]

\* getattr(initial_state, name) of the combined initializer.
HasAttr(value, name) == name \in DOMAIN value

\* Variant: the substores are constructed without an initial state.
initial_substate_dropped(initial_state, name) == Ellipsis

initial_substate(initial_state, name) ==
    IF initial_state.given
    THEN Explicit(initial_state.value[name])
    ELSE Ellipsis

\* combined_store._initialize_state: construct every child, then combine.
combined_initialize_state(classes, initial_state) ==
    LET missing == {n \in Children :
                       initial_state.given
                       /\ ~HasAttr(initial_state.value, n)}
        sub(n) == initialize_state(StoreClasses[classes[n]],
                                   initial_substate(initial_state, n))
    IN  IF missing # {} \/ \E n \in Children \ missing : ~sub(n).ok
        THEN [ok |-> FALSE, substates |-> <<>>, state |-> <<>>]
        ELSE LET substates == [n \in Children |-> sub(n).state]
             IN  [ok |-> TRUE, substates |-> substates,
                  state |-> combine_states(substates)]

\* -------------------------------------------------------------- the world
\* The part of the program state a dispatch call reads and writes, threaded
\* through the nested calls of one synchronous dispatch.
World ==
    [state |-> state, queue |-> queue,
     notification_event |-> notification_event,
     pushed |-> pushed, log |-> log, hist |-> hist, trace |-> << >>]

\* One entry of the trace of a call: what was done, on which store, to
\* which subscription (0 when none).
Event(ev, s, sub) == [ev |-> ev, store |-> s, sub |-> sub]

\* collections.deque(maxlen=...).append: a full bounded deque discards
\* its leftmost item.
maxlen(strat) == IF strat = LATEST THEN 1 ELSE 0

deque_append(q, bound, x) ==
    IF bound > 0 /\ Len(q) = bound
    THEN Append(Tail(q), x)
    ELSE Append(q, x)

\* Variant: the item is queued but the event is not set.
notify_silent(w, sub, next_state, next_action) ==
    LET notification == <<next_state, next_action>>
    IN  [w EXCEPT
            !.queue[sub] = deque_append(@, maxlen(strategy[sub]),
                                        notification),
            !.pushed[sub] = Append(@, notification),
            !.trace = Append(@, Event("notify", owner[sub], sub))]

\* Subscription._notify
notify(w, sub, next_state, next_action) ==
    LET notification == <<next_state, next_action>>
    IN  [w EXCEPT
            !.queue[sub] = deque_append(@, maxlen(strategy[sub]),
                                        notification),
            !.notification_event[sub] = TRUE,
            !.pushed[sub] = Append(@, notification),
            !.trace = Append(@, Event("notify", owner[sub], sub))]

\* The loop `for sub in self._subscriptions.keys()` of Store.dispatch.
RECURSIVE notify_all(_, _, _, _, _)
notify_all(w, keys, i, st, action) ==
    IF i > Len(keys)
    THEN w
    ELSE notify_all(notify(w, keys[i], st, action), keys, i + 1, st, action)

\* Store._set_state
set_state(w, s, value) ==
    [w EXCEPT !.state[s] = value, !.trace = Append(@, Event("set", s, 0))]

\* reducer._wrapper around a reducer method: it refuses a receiver that is
\* not a Store and a call made without __dispatch__=True, and otherwise runs
\* the method body, which returns a state or raises.
wrapper(fn, st, action, is_store, ok_to_call) ==
    IF ~is_store
    THEN [raised |-> TRUE, ret |-> <<>>,
          error |-> "@reducer must be applied to methods of a Store"]
    ELSE IF ~ok_to_call
         THEN [raised |-> TRUE, ret |-> <<>>,
               error |-> "Do not call reducers directly; use Store.dispatch"]
         ELSE IF Raises(fn, st, action)
              THEN [raised |-> TRUE, ret |-> <<>>, error |-> "reducer"]
              ELSE [raised |-> FALSE, ret |-> <<Apply(fn, st, action)>>,
                    error |-> "none"]

\* Store._compute_state of a plain store: the loop over self._reducers,
\* from entry i on.  A reducer reads self.state, which _set_state has
\* already replaced with the previous matching reducer's result.
RECURSIVE compute_state_from(_, _, _, _)
compute_state_from(w, s, i, action) ==
    IF i > Len(reducers[s])
    THEN [w |-> w, raised |-> FALSE]
    ELSE IF IsInstance(action, reducers[s][i].action_type)
         THEN LET r == wrapper(reducers[s][i].fn, w.state[s], action,
                               TRUE, TRUE)
              IN  IF r.raised
                  THEN [w |-> [w EXCEPT !.trace =
                                  Append(@, Event("raise", s, 0))],
                        raised |-> TRUE]
                  ELSE compute_state_from(set_state(w, s, r.ret[1]),
                                          s, i + 1, action)
         ELSE compute_state_from(w, s, i + 1, action)

\* Variant: the state is stored once, after the loop, so every matching
\* reducer computes from the state the dispatch started with.
compute_state_stale(w, s, action) ==
    LET m == SelectSeq(reducers[s],
                       LAMBDA e : IsInstance(action, e.action_type))
    IN  IF m = <<>>
        THEN [w |-> w, raised |-> FALSE]
        ELSE IF \E i \in DOMAIN m : Raises(m[i].fn, w.state[s], action)
             THEN [w |-> w, raised |-> TRUE]
             ELSE [w |-> set_state(w, s, Apply(Last(m).fn, w.state[s],
                                               action)),
                   raised |-> FALSE]

\* Variant: a reducer that raises undoes what the earlier ones stored.
compute_state_rollback(w, s, action) ==
    LET r == compute_state_from(w, s, 1, action)
    IN  IF r.raised
        THEN [w |-> [r.w EXCEPT !.state[s] = w.state[s]], raised |-> TRUE]
        ELSE r

compute_state(w, s, action) == compute_state_from(w, s, 1, action)

RECURSIVE dispatch(_, _, _, _)
RECURSIVE combined_compute_from(_, _, _, _)

\* combined_store._compute_state: the dict comprehension dispatches the
\* action into each substore in the order of the keyword arguments and
\* keeps what each dispatch returns; then the combination is stored.
combined_compute_from(w, i, substates, action) ==
    IF i > Len(ChildNames)
    THEN [w |-> set_state(w, Parent, combine_states(substates)),
          raised |-> FALSE]
    ELSE LET r == dispatch(w, ChildNames[i], action, FALSE)
         IN  IF r.raised
             THEN [w |-> r.w, raised |-> TRUE]
             ELSE combined_compute_from(
                      r.w, i + 1,
                      (ChildNames[i] :> r.ret[1]) @@ substates, action)

\* Variant: the combination is built from the substates as they were
\* before the action was forwarded.
combined_compute_stale(w, action) ==
    LET r == combined_compute_from(w, 1, <<>>, action)
    IN  IF r.raised
        THEN r
        ELSE [w |-> set_state(r.w, Parent,
                              combine_states([n \in Children |->
                                                 w.state[n]])),
              raised |-> FALSE]

\* Variant: only the first substore receives the action.
combined_compute_first_only(w, action) ==
    LET r == dispatch(w, ChildNames[1], action, FALSE)
    IN  IF r.raised
        THEN [w |-> r.w, raised |-> TRUE]
        ELSE [w |-> set_state(r.w, Parent,
                              combine_states(
                                  [n \in Children |->
                                      IF n = ChildNames[1]
                                      THEN r.ret[1]
                                      ELSE r.w.state[n]])),
              raised |-> FALSE]

\* Variant: the combined state is stored before the action is forwarded,
\* and again afterwards.
combined_compute_early(w, action) ==
    combined_compute_from(
        set_state(w, Parent,
                  combine_states([n \in Children |-> w.state[n]])),
        1, <<>>, action)

combined_compute_state(w, action) ==
    combined_compute_from(w, 1, <<>>, action)

\* Variant: subscriptions are notified only when the state changed.
dispatch_only_on_change(w, s, action, direct) ==
    LET w0 == [w EXCEPT !.trace = Append(@, Event("dispatch", s, 0))]
        c == IF s = Parent
             THEN combined_compute_state(w0, action)
             ELSE compute_state(w0, s, action)
        entry == [action |-> action, raised |-> c.raised, direct |-> direct]
        w1 == [c.w EXCEPT !.hist[s] = Append(@, entry)]
    IN  IF c.raised
        THEN [w |-> w1, raised |-> TRUE, ret |-> <<>>]
        ELSE LET st == w1.state[s]
                 w2 == [w1 EXCEPT !.log[s] = Append(@, <<st, action>>)]
             IN  [w |-> IF st = w.state[s]
                        THEN w2
                        ELSE notify_all(w2, subscriptions[s], 1, st, action),
                  raised |-> FALSE, ret |-> <<st>>]

\* Variant: a dispatch made directly on a substore also notifies the
\* subscriptions of the combined store.
dispatch_to_parent_subs(w, s, action, direct) ==
    LET w0 == [w EXCEPT !.trace = Append(@, Event("dispatch", s, 0))]
        c == IF s = Parent
             THEN combined_compute_state(w0, action)
             ELSE compute_state(w0, s, action)
        entry == [action |-> action, raised |-> c.raised, direct |-> direct]
        w1 == [c.w EXCEPT !.hist[s] = Append(@, entry)]
        keys == IF direct /\ s # Parent
                THEN subscriptions[s] \o subscriptions[Parent]
                ELSE subscriptions[s]
    IN  IF c.raised
        THEN [w |-> w1, raised |-> TRUE, ret |-> <<>>]
        ELSE LET st == w1.state[s]
                 w2 == [w1 EXCEPT !.log[s] = Append(@, <<st, action>>)]
             IN  [w |-> notify_all(w2, keys, 1, st, action),
                  raised |-> FALSE, ret |-> <<st>>]

\* Variant: the subscriptions are notified whether or not a reducer raised.
dispatch_notify_always(w, s, action, direct) ==
    LET w0 == [w EXCEPT !.trace = Append(@, Event("dispatch", s, 0))]
        c == IF s = Parent
             THEN combined_compute_state(w0, action)
             ELSE compute_state(w0, s, action)
        entry == [action |-> action, raised |-> c.raised, direct |-> direct]
        w1 == [c.w EXCEPT !.hist[s] = Append(@, entry)]
        st == w1.state[s]
    IN  IF c.raised
        THEN [w |-> notify_all(w1, subscriptions[s], 1, st, action),
              raised |-> TRUE, ret |-> <<>>]
        ELSE LET w2 == [w1 EXCEPT !.log[s] = Append(@, <<st, action>>)]
             IN  [w |-> notify_all(w2, subscriptions[s], 1, st, action),
                  raised |-> FALSE, ret |-> <<st>>]

\* Store.dispatch.  `direct` tells a call made by application code from
\* one made by the combined store; ret is <<value>> when the call returns
\* and <<>> when a reducer's exception propagates out of it.
dispatch(w, s, action, direct) ==
    LET w0 == [w EXCEPT !.trace = Append(@, Event("dispatch", s, 0))]
        c == IF s = Parent
             THEN combined_compute_state(w0, action)
             ELSE compute_state(w0, s, action)
        entry == [action |-> action, raised |-> c.raised, direct |-> direct]
        w1 == [c.w EXCEPT !.hist[s] = Append(@, entry)]
    IN  IF c.raised
        THEN [w |-> w1, raised |-> TRUE, ret |-> <<>>]
        ELSE LET st == w1.state[s]
                 w2 == [w1 EXCEPT !.log[s] = Append(@, <<st, action>>)]
             IN  [w |-> notify_all(w2, subscriptions[s], 1, st, action),
                  raised |-> FALSE, ret |-> <<st>>]

\* ------------------------------------------------------------------- Init
\* The state after CombinedStore(initial_state) has been constructed.
NoCall ==
    [target |-> "none", action |-> "none", raised |-> FALSE, ret |-> <<>>,
     trace |-> <<>>]

\* No call other than dispatch has been made.
NoRequest ==
    [op |-> "none", target |-> "none", name |-> "none", ok_to_call |-> FALSE,
     raised |-> FALSE, error |-> "none", nth |-> 0]

Init ==
    \E made \in Constructions :
        LET k == made.classes
            r == combined_initialize_state(k, made.initial_state)
        IN  /\ r.ok
            /\ cls = k
            /\ reducers = [c \in Children |->
                              BuildReducers(StoreClasses[k[c]].handlers)]
            /\ initial = [s \in Stores |->
                             IF s = Parent THEN r.state ELSE r.substates[s]]
            /\ state = [s \in Stores |->
                           IF s = Parent THEN r.state ELSE r.substates[s]]
            /\ subscriptions = [s \in Stores |-> <<>>]
            /\ owner = [i \in SubIds |-> Parent]
            /\ strategy = [i \in SubIds |-> LATEST]
            /\ scope = [i \in SubIds |-> "none"]
            /\ queue = [i \in SubIds |-> <<>>]
            /\ notification_event = [i \in SubIds |-> FALSE]
            /\ pc = [i \in SubIds |-> "idle"]
            /\ got = [i \in SubIds |-> <<>>]
            /\ pushed = [i \in SubIds |-> <<>>]
            /\ attachedAt = [i \in SubIds |-> 0]
            /\ log = [s \in Stores |-> <<>>]
            /\ hist = [s \in Stores |-> <<>>]
            /\ last = [NoCall EXCEPT !.target = "none"] @@ [pre |-> state]
            /\ ndispatch = 0
            /\ call = NoRequest

\* ---------------------------------------------------------------- actions
\* Number of subscription-side operations performed so far: scope entries,
\* scope exits and __anext__ calls.
RECURSIVE OpsUpTo(_)
OpsUpTo(n) ==
    IF n = 0
    THEN 0
    ELSE OpsUpTo(n - 1)
         + (IF scope[n] = "none" THEN 0 ELSE 1)
         + (IF scope[n] \in {"exited", "failed"} THEN 1 ELSE 0)
         + Len(got[n]) + (IF pc[n] = "waiting" THEN 1 ELSE 0)

Ops == OpsUpTo(MaxSubs)

\* Number of operations performed so far.
Steps == ndispatch + Ops + call.nth

\* Application code calls store.dispatch(action) on any of the stores.
Dispatch(s, action) ==
    /\ Steps < MaxSteps
    /\ \E r \in {dispatch(World, s, action, TRUE)} :
           /\ state' = r.w.state
           /\ queue' = r.w.queue
           /\ notification_event' = r.w.notification_event
           /\ pushed' = r.w.pushed
           /\ log' = r.w.log
           /\ hist' = r.w.hist
           /\ last' = [target |-> s, action |-> action, raised |-> r.raised,
                       ret |-> r.ret, trace |-> r.w.trace, pre |-> state]
    /\ ndispatch' = ndispatch + 1
    /\ UNCHANGED <<config, call, subscriptions, subvars, pc, got>>

\* Variant: a new subscription is handed the store's latest notification.
SubscribeReplay(s, strat) ==
    /\ Steps < MaxSteps
    /\ \E sub \in SubIds :
        /\ scope[sub] = "none"
        /\ \A j \in SubIds : j < sub => scope[j] # "none"
        /\ owner' = [owner EXCEPT ![sub] = s]
        /\ strategy' = [strategy EXCEPT ![sub] = strat]
        /\ scope' = [scope EXCEPT ![sub] = "open"]
        /\ attachedAt' = [attachedAt EXCEPT ![sub] = Len(log[s])]
        /\ subscriptions' = [subscriptions EXCEPT ![s] = Append(@, sub)]
        /\ queue' = [queue EXCEPT ![sub] =
                        IF log[s] = <<>> THEN <<>> ELSE <<Last(log[s])>>]
        /\ pushed' = [pushed EXCEPT ![sub] =
                        IF log[s] = <<>> THEN <<>> ELSE <<Last(log[s])>>]
    /\ UNCHANGED <<config, call, state, notification_event, pc, got, log, hist,
                   last, ndispatch>>

\* Entering `with store.subscribe(strategy) as sub`: Subscription.__init__
\* and the registration in Store._subscriptions, up to the yield.
Subscribe(s, strat) ==
    /\ Steps < MaxSteps
    /\ \E sub \in SubIds :
        /\ scope[sub] = "none"
        /\ \A j \in SubIds : j < sub => scope[j] # "none"
        /\ owner' = [owner EXCEPT ![sub] = s]
        /\ strategy' = [strategy EXCEPT ![sub] = strat]
        /\ scope' = [scope EXCEPT ![sub] = "open"]
        /\ attachedAt' = [attachedAt EXCEPT ![sub] = Len(log[s])]
        /\ subscriptions' = [subscriptions EXCEPT ![s] = Append(@, sub)]
    /\ UNCHANGED <<config, call, state, queue, notification_event, pc, got,
                   pushed, log, hist, last, ndispatch>>

Remove(keys, sub) == SelectSeq(keys, LAMBDA k : k # sub)

\* Leaving the with block.  When the block ends or returns ("exited") the
\* context manager resumes the generator after the yield and the del
\* statement runs; an exception raised in the block ("failed") is thrown
\* into the generator at the yield, where nothing catches it, so the del
\* statement is not reached.
exit_subscribe(keys, sub, how) ==
    IF how = "failed" THEN keys ELSE Remove(keys, sub)

ExitScope(sub, how) ==
    /\ scope[sub] = "open"
    /\ Steps < MaxSteps
    /\ scope' = [scope EXCEPT ![sub] = how]
    /\ subscriptions' = [subscriptions EXCEPT
                            ![owner[sub]] = exit_subscribe(@, sub, how)]
    /\ UNCHANGED <<config, call, state, owner, strategy, attachedAt, queue,
                   notification_event, pc, got, pushed, log, hist, last,
                   ndispatch>>

\* Subscription.__anext__ from its `while len(self._queue) == 0` test on,
\* up to the next suspension or the return.
anext(sub) ==
    IF Len(queue[sub]) = 0
    THEN /\ pc' = [pc EXCEPT ![sub] = "waiting"]
         /\ UNCHANGED <<queue, got>>
    ELSE /\ queue' = [queue EXCEPT ![sub] = Tail(@)]
         /\ got' = [got EXCEPT ![sub] = Append(@, Head(queue[sub]))]
         /\ pc' = [pc EXCEPT ![sub] = "idle"]

\* The consumer calls __anext__.
AnextStart(sub) ==
    /\ scope[sub] # "none"
    /\ pc[sub] = "idle"
    /\ Steps < MaxSteps
    /\ anext(sub)
    /\ UNCHANGED <<config, call, state, subscriptions, subvars,
                   notification_event, pushed, log, hist, last, ndispatch>>

\* The event the consumer waits on is set: wait() returns, the consumer
\* installs a fresh Event and tests the queue again.
AnextWake(sub) ==
    /\ pc[sub] = "waiting"
    /\ notification_event[sub]
    /\ notification_event' = [notification_event EXCEPT ![sub] = FALSE]
    /\ anext(sub)
    /\ UNCHANGED <<config, call, state, subscriptions, subvars, pushed, log,
                   hist, last, ndispatch>>

Next ==
    \/ \E s \in Accessible, action \in Actions : Dispatch(s, action)
    \/ \E s \in Accessible, strat \in SubscriptionStrategy :
           Subscribe(s, strat)
    \/ \E sub \in SubIds, how \in {"exited", "failed"} :
           ExitScope(sub, how)
    \/ \E sub \in SubIds : AnextStart(sub)
    \/ \E sub \in SubIds : AnextWake(sub)

Spec == Init /\ [][Next]_vars

\* ------------------------------------------------- a consumer that keeps on
\* `async for item in sub`: the consumer calls __anext__ again whenever the
\* previous call has returned, for as long as it runs.
Iterate(sub) ==
    /\ scope[sub] # "none"
    /\ pc[sub] = "idle"
    /\ anext(sub)
    /\ UNCHANGED <<config, call, state, subscriptions, subvars,
                   notification_event, pushed, log, hist, last, ndispatch>>

\* One subscription with its one consumer, on either of the stores the
\* callers reach.
LiveNext ==
    \/ \E s \in Accessible, action \in Actions : Dispatch(s, action)
    \/ \E s \in Accessible, strat \in SubscriptionStrategy :
           scope[1] = "none" /\ Subscribe(s, strat)
    \/ \E sub \in SubIds, how \in {"exited", "failed"} :
           ExitScope(sub, how)
    \/ \E sub \in SubIds : Iterate(sub)
    \/ \E sub \in SubIds : AnextWake(sub)

\* The event loop runs every consumer task that is ready: one that is
\* between two __anext__ calls, and one whose event has been set.
LiveInit ==
    Init /\ cls = [counter |-> "CounterStore", mirror |-> "GuardedStore"]

SpecLive ==
    /\ LiveInit
    /\ [][LiveNext]_vars
    /\ \A sub \in SubIds :
          WF_vars(Iterate(sub)) /\ WF_vars(AnextWake(sub))

\* ------------------------------------------------------- refused operations
\* Names and values application code may try to assign on a store.
AttrNames == {"state", "label"}
Assignable(s) == IF s = Parent
                 THEN {[counter |-> 42, mirror |-> 24]}
                 ELSE {42}

\* Variant: the state attribute is not protected.
setattr_unguarded(w, s, name, value) ==
    IF name = "state"
    THEN [w |-> set_state(w, s, value), raised |-> FALSE, error |-> "none"]
    ELSE [w |-> w, raised |-> FALSE, error |-> "none"]

\* Store.__setattr__: assigning `state` raises TypeError; any other name is
\* handed to object.__setattr__, which touches nothing the model holds.
setattr(w, s, name, value) ==
    IF name = "state"
    THEN [w |-> w, raised |-> TRUE,
          error |-> "Cannot overwrite state attribute."]
    ELSE [w |-> w, raised |-> FALSE, error |-> "none"]

\* Application code runs `store.<name> = value`.
SetAttr(s, name, value) ==
    /\ Steps < MaxSteps
    /\ \E r \in {setattr(World, s, name, value)} :
           /\ state' = r.w.state
           /\ queue' = r.w.queue
           /\ notification_event' = r.w.notification_event
           /\ pushed' = r.w.pushed
           /\ log' = r.w.log
           /\ hist' = r.w.hist
           /\ call' = [op |-> "setattr", target |-> s, name |-> name,
                       ok_to_call |-> FALSE, raised |-> r.raised,
                       error |-> r.error, nth |-> call.nth + 1]
    /\ UNCHANGED <<config, subscriptions, subvars, pc, got, last, ndispatch>>

\* Application code calls a reducer method of a store itself,
\* `store.increment(action)`, with an action the reducer is registered
\* for.  The method body only computes a value from self.state; nothing
\* stores it.
CallReducer(s, i, action, ok_to_call) ==
    /\ Steps < MaxSteps
    /\ i \in DOMAIN reducers[s]
    /\ IsInstance(action, reducers[s][i].action_type)
    /\ \E r \in {wrapper(reducers[s][i].fn, state[s], action, TRUE,
                         ok_to_call)} :
           call' = [op |-> "call", target |-> s, name |-> reducers[s][i].name,
                    ok_to_call |-> ok_to_call, raised |-> r.raised,
                    error |-> r.error, nth |-> call.nth + 1]
    /\ UNCHANGED <<config, state, subscriptions, subvars, queue,
                   notification_event, pc, got, pushed, log, hist, last,
                   ndispatch>>

\* The program together with the operations a store refuses.
GuardNext ==
    \/ Next
    \/ \E s \in Accessible, name \in AttrNames :
           \E value \in Assignable(s) : SetAttr(s, name, value)
    \/ \E s \in Accessible \cap Children, i \in 1..Len(NameOrder),
          action \in Actions :
           CallReducer(s, i, action, FALSE)

\* The refused operations are tried on the combination of a store with two
\* reducers for one action, one of which raises, and a store without.
GuardInit ==
    Init /\ cls = [counter |-> "GuardedStore", mirror |-> "MirrorStore"]

SpecGuard == GuardInit /\ [][GuardNext]_vars

\* ------------------------------------------------------------ construction
\* Explicit initial states handed to a plain store's constructor, and the
\* objects handed to a combined store's: a CombinedState, or a tuple type
\* that lacks the field of the second substore.
InitialValues == (0 - 1)..MaxInitial
InitialObjects ==
    {[counter |-> a, mirror |-> b] : a, b \in InitialValues}
    \cup {[counter |-> a, foo |-> b] : a, b \in InitialValues}

ClassNames == DOMAIN StoreClasses

\* The constructor calls tried: Class(initial_state) for a plain store and
\* combined_store(CombinedState, counter=A, mirror=B)(initial_state).
Requests ==
    {[op |-> "Store", class |-> k, initial_state |-> i, done |-> FALSE] :
        k \in ClassNames,
        i \in {Ellipsis} \cup {Explicit(v) : v \in InitialValues}}
    \cup
    {[op |-> "combined_store", classes |-> [counter |-> a, mirror |-> b],
      initial_state |-> i, done |-> FALSE] :
        a \in ClassNames, b \in ClassNames,
        i \in {Ellipsis} \cup {Explicit(v) : v \in InitialObjects}}

\* Nothing has been constructed yet.
Unbuilt ==
    /\ cls = [c \in Children |-> "none"]
    /\ reducers = [c \in Children |-> << >>]
    /\ initial = [s \in Stores |-> << >>]
    /\ state = [s \in Stores |-> << >>]
    /\ subscriptions = [s \in Stores |-> << >>]
    /\ owner = [i \in SubIds |-> Parent]
    /\ strategy = [i \in SubIds |-> LATEST]
    /\ scope = [i \in SubIds |-> "none"]
    /\ queue = [i \in SubIds |-> << >>]
    /\ notification_event = [i \in SubIds |-> FALSE]
    /\ pc = [i \in SubIds |-> "idle"]
    /\ got = [i \in SubIds |-> << >>]
    /\ pushed = [i \in SubIds |-> << >>]
    /\ attachedAt = [i \in SubIds |-> 0]
    /\ log = [s \in Stores |-> << >>]
    /\ hist = [s \in Stores |-> << >>]
    /\ last = NoCall @@ [pre |-> state]
    /\ ndispatch = 0

ConstructInit == Unbuilt /\ call \in Requests

\* Store.__init__ of a plain store class: the state is resolved, then the
\* subscription set and the reducer registry are created.
ConstructStore ==
    /\ call.op = "Store" /\ ~call.done
    /\ \E r \in {initialize_state(StoreClasses[call.class],
                                   call.initial_state)} :
           call' = [call EXCEPT !.done = TRUE] @@
                   [ok |-> r.ok,
                    state |-> IF r.ok THEN <<r.state>> ELSE << >>,
                    reducers |->
                        IF r.ok
                        THEN BuildReducers(StoreClasses[call.class].handlers)
                        ELSE << >>]
    /\ UNCHANGED <<config, state, subscriptions, subvars, queue,
                   notification_event, pc, got, pushed, log, hist, last,
                   ndispatch>>

\* Store.__init__ of a combined store class.  When it succeeds the program
\* is in a state Init describes.
ConstructCombined ==
    /\ call.op = "combined_store" /\ ~call.done
    /\ \E r \in {combined_initialize_state(call.classes,
                                            call.initial_state)} :
           /\ call' = [call EXCEPT !.done = TRUE] @@ [ok |-> r.ok]
           /\ IF r.ok
              THEN /\ cls' = call.classes
                   /\ reducers' =
                        [c \in Children |->
                            BuildReducers(
                                StoreClasses[call.classes[c]].handlers)]
                   /\ initial' =
                        [s \in Stores |->
                            IF s = Parent THEN r.state ELSE r.substates[s]]
                   /\ state' =
                        [s \in Stores |->
                            IF s = Parent THEN r.state ELSE r.substates[s]]
              ELSE UNCHANGED <<config, state>>
    /\ UNCHANGED <<subscriptions, subvars, queue, notification_event, pc,
                   got, pushed, log, hist, last, ndispatch>>

ConstructNext == ConstructStore \/ ConstructCombined

SpecConstruct == ConstructInit /\ [][ConstructNext]_vars

\* ------------------------------------------------- vocabulary of the claims
Live(s) == Range(subscriptions[s])
Attached(sub) == scope[sub] # "none" /\ sub \in Live(owner[sub])
Left(sub) == scope[sub] \in {"exited", "failed"}

\* The registry entries that match an action, in registry order.
Matching(registry, action) ==
    SelectSeq(registry, LAMBDA e : IsInstance(action, e.action_type))

\* Left fold of a list of reducers over a state; a reducer that raises ends
\* the fold with the state it was given.
RECURSIVE FoldReducers(_, _, _)
FoldReducers(rs, st, action) ==
    IF rs = <<>>
    THEN st
    ELSE IF Raises(Head(rs).fn, st, action)
         THEN st
         ELSE FoldReducers(Tail(rs), Apply(Head(rs).fn, st, action), action)

\* Left fold of a sequence of actions over an initial state.
RECURSIVE FoldActions(_, _, _)
FoldActions(registry, st, actions) ==
    IF actions = <<>>
    THEN st
    ELSE FoldActions(registry,
                     FoldReducers(Matching(registry, Head(actions)), st,
                                  Head(actions)),
                     Tail(actions))

\* Position of a substore in the keyword arguments of combined_store.
ChildIndex(c) == CHOOSE i \in DOMAIN ChildNames : ChildNames[i] = c

ActionsOf(s) == [i \in DOMAIN hist[s] |-> hist[s][i].action]
NeverRaised(s) == \A i \in DOMAIN hist[s] : ~hist[s][i].raised
Returned(s) == last.target = s /\ ~last.raised

\* The store s received a dispatch call in this step, from the application
\* or from the combined store; the pair (resulting state, action) of that
\* dispatch.
Dispatched(s) == Len(hist'[s]) = Len(hist[s]) + 1
PairOfDispatch(s) == <<state'[s], Last(hist'[s]).action>>

\* The notifications a store produced since a subscription was attached.
SinceAttached(sub) ==
    SubSeq(log[owner[sub]], attachedAt[sub] + 1, Len(log[owner[sub]]))

\* ----------------------------------------------------------------- claims
\* C1: after every sequence of dispatches into a plain store, the store's
\* state is the left fold, over the initial state, of the reducers matching
\* each action, taken in registry order and each applied to the result of
\* the previous one; a dispatch that returns, returns that state.
C1_LeftFold ==
    \A c \in Children :
        /\ state[c] = FoldActions(reducers[c], initial[c], ActionsOf(c))
        /\ Returned(c) =>
              /\ last.ret = <<state[c]>>
              /\ state[c] = FoldReducers(Matching(reducers[c], last.action),
                                         last.pre[c], last.action)

\* Two dispatches of an action that two reducers match, on ScaleStore:
\* 2 -> (2*2)+1 = 5 -> (5*2)+1 = 11.
C1_Witness ==
    /\ cls["counter"] = "ScaleStore"
    /\ ActionsOf("counter") = <<"Increment", "Increment">>
    /\ Len(Matching(reducers["counter"], "Increment")) = 2
    /\ Returned("counter")
    /\ state["counter"] = 11

\* C2: for an EVERY subscription that stays attached, what its consumer
\* has read followed by what is still buffered grows by exactly one item,
\* the pair (resulting state, action), in every step in which its store
\* receives a dispatch, and by nothing in any other step: one item per
\* dispatch, in dispatch order, whatever reads come in between.
C2_OneItemPerDispatch ==
    [][\A sub \in SubIds :
         (strategy[sub] = EVERY /\ scope[sub] = "open"
          /\ scope'[sub] = "open") =>
            got'[sub] \o queue'[sub] =
                IF Dispatched(owner[sub])
                THEN Append(got[sub] \o queue[sub],
                            PairOfDispatch(owner[sub]))
                ELSE got[sub] \o queue[sub]]_vars

\* C3: a LATEST buffer never holds more than one item, and for an attached
\* LATEST subscription whose consumer has never read, every dispatch its
\* store receives leaves exactly one item in the buffer, the pair
\* (resulting state, action) of that dispatch.
C3_HoldsNthDispatch ==
    /\ [](\A sub \in SubIds :
            (strategy[sub] = LATEST /\ scope[sub] # "none") =>
                Len(queue[sub]) <= 1)
    /\ [][\A sub \in SubIds :
            (strategy[sub] = LATEST /\ scope[sub] = "open"
             /\ got[sub] = << >> /\ pc[sub] = "idle"
             /\ Dispatched(owner[sub])) =>
                queue'[sub] = <<PairOfDispatch(owner[sub])>>]_vars

\* C4: once the scope of a subscription has been left, no step pushes
\* anything into the subscription.
C4_NoPushAfterExit ==
    [][\A sub \in SubIds : Left(sub) => pushed'[sub] = pushed[sub]]_vars

\* C5: a subscription is in its store's live set while its scope is open
\* and is not in it once the scope has been left, however it was left.
C5_DeregisteredOnEveryExit ==
    \A sub \in SubIds :
        /\ scope[sub] = "open" => sub \in Live(owner[sub])
        /\ Left(sub) => sub \notin Live(owner[sub])

\* C6: right after construction, and right after a dispatch on the
\* combined store has returned, the combined state is the combination of
\* the current states of the substores, and it is what dispatch returned.
C6_CombinedIsCombination ==
    /\ (ndispatch = 0 \/ Returned(Parent)) =>
          state[Parent] = combine_states([n \in Children |-> state[n]])
    /\ Returned(Parent) => last.ret = <<state[Parent]>>

C6_Witness ==
    /\ Returned(Parent)
    /\ Len(hist[Parent]) = 2
    /\ \A n \in Children : state[n] # initial[n]
    /\ state[Parent] = [counter |-> state["counter"],
                        mirror |-> state["mirror"]]

\* A standalone instance of a substore's class: the state it is in after
\* the actions are dispatched into it one after the other.
RECURSIVE StandaloneRun(_, _, _)
StandaloneRun(w, c, actions) ==
    IF actions = <<>>
    THEN w.state[c]
    ELSE StandaloneRun(compute_state(w, c, Head(actions)).w, c,
                       Tail(actions))

Standalone(c) ==
    StandaloneRun([World EXCEPT !.state[c] = initial[c]], c,
                  ActionsOf(Parent))

OnlyThroughParent ==
    \A c \in Children : \A i \in DOMAIN hist[c] : ~hist[c][i].direct

MatchesStandalone ==
    /\ \A c \in Children : state[c] = Standalone(c)
    /\ state[Parent] = combine_states([n \in Children |-> Standalone(n)])

\* C7 as stated: when all dispatches went into the combined store, every
\* substore is in the state a standalone instance reaches on the same
\* sequence, and the combined state combines the standalone results.
C7_AsStated == OnlyThroughParent => MatchesStandalone

\* The element of a set of one element.
The(S) == CHOOSE x \in S : TRUE

\* A standalone instance of the class of substore c given the actions one
\* after the other: the state it ends in, and the actions on which its
\* dispatch returned.
RECURSIVE RunStandalone(_, _, _, _)
RunStandalone(w, c, actions, passed) ==
    IF actions = << >>
    THEN [state |-> w.state[c], passed |-> passed]
    ELSE The({RunStandalone(r.w, c, Tail(actions),
                            IF r.raised
                            THEN passed
                            ELSE Append(passed, Head(actions))) :
                 r \in {compute_state(w, c, Head(actions))}})

Fresh(c) == [World EXCEPT !.state[c] = initial[c]]

\* For the first k substores of the child map, the run of a standalone
\* instance on the actions of a sequence dispatched into the combined
\* store that reach the substore: every action reaches the first
\* substore, and a later one is reached by the actions on which the
\* dispatch of no earlier substore raises.
RECURSIVE Runs(_, _)
Runs(k, actions) ==
    IF k = 0
    THEN << >>
    ELSE The({Append(before,
                     RunStandalone(Fresh(ChildNames[k]), ChildNames[k],
                                   IF k = 1
                                   THEN actions
                                   ELSE before[k - 1].passed,
                                   << >>)) :
                 before \in {Runs(k - 1, actions)}})

StandaloneRuns(actions) == Runs(Len(ChildNames), actions)

\* The dispatches on the combined store up to the last one that returned.
UpToLastReturned ==
    LET ok == {i \in DOMAIN hist[Parent] : ~hist[Parent][i].raised}
        n == IF ok = {} THEN 0 ELSE CHOOSE i \in ok : \A j \in ok : j <= i
    IN  SubSeq(ActionsOf(Parent), 1, n)

\* C7 amended: at every moment, when all dispatches went into the combined
\* store, every substore is in the state a standalone instance of its class reaches,
\* from the same initial state, on the actions of the sequence that
\* reach it, and the combined state combines the standalone results as of
\* the last dispatch that returned.  While no dispatch has raised in a
\* substore other than the last, the whole sequence reaches every
\* substore.
C7_MatchesStandalone ==
    [](
      OnlyThroughParent =>
          \A all \in {ActionsOf(Parent)}, upto \in {UpToLastReturned} :
            \A now \in {StandaloneRuns(all)} :
              /\ \A c \in Children : state[c] = now[ChildIndex(c)].state
              /\ \A then \in {IF upto = all THEN now
                                ELSE StandaloneRuns(upto)} :
                    state[Parent] =
                        combine_states(
                            [c \in Children |-> then[ChildIndex(c)].state])
              /\ (\A k \in 1..(Len(ChildNames) - 1) :
                      NeverRaised(ChildNames[k])) =>
                    \A k \in 1..(Len(ChildNames) - 1) : now[k].passed = all)

\* Decrement then Increment into GuardedStore + MirrorStore: the first
\* dispatch raises in the counter after add has stored 1 and never reaches
\* the mirror, the second returns (2, -1); a standalone MirrorStore given
\* both actions is at 0.
C7_Witness ==
    /\ OnlyThroughParent
    /\ cls["counter"] = "GuardedStore" /\ cls["mirror"] = "MirrorStore"
    /\ ActionsOf(Parent) = <<"Decrement", "Increment">>
    /\ StandaloneRuns(ActionsOf(Parent))[1].passed = <<"Increment">>
    /\ Standalone("mirror") = 0
    /\ state[Parent] = [counter |-> 2, mirror |-> 0 - 1]

\* A plain store received a dispatch call in this step, directly or from
\* the combined store, and none of its reducers matches the action.
NoMatchDispatch(c) ==
    /\ Len(hist'[c]) = Len(hist[c]) + 1
    /\ Matching(reducers[c], Last(hist'[c]).action) = <<>>

\* C8: a dispatch of an action that no reducer of a plain store matches
\* does not raise, leaves the store's state as it was, returns that state,
\* and pushes exactly one pair (unchanged state, action) to every live
\* subscription of the store and nothing to its other subscriptions.
C8_NoMatchStillNotifies ==
    [][\A c \in Children :
         NoMatchDispatch(c) =>
           /\ ~Last(hist'[c]).raised
           /\ state'[c] = state[c]
           /\ last'.target = c => last'.ret = <<state[c]>>
           /\ (last'.target = Parent /\ ~last'.raised) =>
                 state'[Parent][c] = state[c]
           /\ \A sub \in SubIds :
                (scope[sub] # "none" /\ owner[sub] = c) =>
                  IF sub \in Live(c)
                  THEN /\ pushed'[sub] =
                            Append(pushed[sub],
                                   <<state[c], Last(hist'[c]).action>>)
                       /\ queue'[sub] # <<>>
                       /\ Last(queue'[sub]) =
                            <<state[c], Last(hist'[c]).action>>
                  ELSE pushed'[sub] = pushed[sub]]_vars

\* ScaleStore has no reducer for Decrement: a subscription of the store
\* holds the pair (unchanged state, Decrement).
C8_Witness ==
    \E sub \in SubIds :
        /\ Attached(sub)
        /\ owner[sub] \in Children
        /\ last.target = owner[sub]
        /\ Matching(reducers[owner[sub]], last.action) = <<>>
        /\ ~last.raised
        /\ state[owner[sub]] = last.pre[owner[sub]]
        /\ last.ret = <<state[owner[sub]]>>
        /\ queue[sub] # <<>>
        /\ Last(queue[sub]) = <<state[owner[sub]], last.action>>

\* C9: an attached subscription has been pushed exactly the pairs of the
\* dispatches made since it was attached: none of the earlier ones, and
\* all of the later ones, whatever other subscriptions exist.
C9_OnlyLaterNotifications ==
    \A sub \in SubIds :
        scope[sub] = "open" => pushed[sub] = SinceAttached(sub)

\* Two subscriptions of one store, the second attached after the first
\* dispatch: the first got both pairs, the second only the second pair.
C9_Witness ==
    \E a, b \in SubIds :
        /\ a # b /\ owner[a] = owner[b]
        /\ scope[a] = "open" /\ scope[b] = "open"
        /\ Len(log[owner[a]]) = 2
        /\ attachedAt[a] = 0 /\ attachedAt[b] = 1
        /\ pushed[a] = log[owner[a]]
        /\ pushed[b] = <<log[owner[a]][2]>>
        /\ log[owner[a]][1] # log[owner[a]][2]

\* C10: whenever the buffer of an attached LATEST subscription holds an
\* item, the state in that item is the current state of its store.
C10_LatestMatchesStore ==
    \A sub \in SubIds :
        (strategy[sub] = LATEST /\ Attached(sub) /\ queue[sub] # <<>>) =>
            queue[sub][1][1] = state[owner[sub]]
\* C11: a store's state changes only in a step in which a store received a
\* dispatch call.  Assigning the state attribute raises TypeError, calling a
\* reducer method without __dispatch__ raises the usage error, and neither
\* changes a state or a subscription buffer; subscribe, scope exit and the
\* consumer's reads leave every state as it was.
C11_StateOnlyThroughDispatch ==
    [][/\ hist' = hist => state' = state
       /\ call' # call =>
             /\ state' = state /\ queue' = queue /\ pushed' = pushed
             /\ hist' = hist
             /\ (call'.op = "setattr" /\ call'.name = "state") =>
                   /\ call'.raised
                   /\ call'.error = "Cannot overwrite state attribute."
             /\ (call'.op = "call" /\ ~call'.ok_to_call) =>
                   /\ call'.raised
                   /\ call'.error =
                        "Do not call reducers directly; use Store.dispatch"
      ]_vars

\* An assignment to the state of a store that has moved away from its
\* initial state and has a subscription with a pending item was refused.
C11_Witness ==
    /\ call.op = "setattr" /\ call.name = "state" /\ call.raised
    /\ state[call.target] # initial[call.target]
    /\ \E sub \in SubIds :
           /\ Attached(sub) /\ owner[sub] = call.target
           /\ queue[sub] # <<>>
\* C12: constructing a plain store with an explicit initial state gives
\* a store in that state, whatever the class default; without one it gives
\* a store in the class default; with neither, construction fails and
\* there is no store.
C12_InitialStateResolution ==
    (call.op = "Store" /\ call.done) =>
        IF call.initial_state.given
        THEN call.ok /\ call.state = <<call.initial_state.value>>
        ELSE IF StoreClasses[call.class].has_default
             THEN /\ call.ok
                  /\ call.state = <<StoreClasses[call.class].default>>
             ELSE ~call.ok /\ call.state = << >>

\* ScaleStore(2): the explicit 2 wins over the class default 1.
C12_Witness ==
    /\ call.op = "Store" /\ call.done /\ call.ok
    /\ call.class = "ScaleStore"
    /\ call.initial_state = Explicit(2)
    /\ StoreClasses[call.class].default = 1
    /\ call.state = <<2>>

\* The initial state object has the field of every substore.
Complete(initial_state) ==
    \A n \in Children : HasAttr(initial_state.value, n)

\* C13: constructing a combined store with an explicit initial state
\* seeds each substore with the field of its name and the combined state
\* is the combination of the substores' states; without one each substore
\* is in its class default; an initial state lacking a substore's field
\* makes construction fail.
C13_CombinedConstruction ==
    (call.op = "combined_store" /\ call.done) =>
        IF call.initial_state.given
        THEN IF Complete(call.initial_state)
             THEN /\ call.ok
                  /\ \A n \in Children :
                        state[n] = call.initial_state.value[n]
                  /\ state[Parent] =
                        combine_states([n \in Children |-> state[n]])
             ELSE ~call.ok /\ state[Parent] = << >>
        ELSE IF \A n \in Children :
                   StoreClasses[call.classes[n]].has_default
             THEN /\ call.ok
                  /\ \A n \in Children :
                        state[n] = StoreClasses[call.classes[n]].default
                  /\ state[Parent] =
                        combine_states([n \in Children |-> state[n]])
             ELSE ~call.ok /\ state[Parent] = << >>

\* A combined store of a ScaleStore (default 1) and a store without a
\* default, constructed from CombinedState(counter=2, mirror=-1).
C13_Witness ==
    /\ call.op = "combined_store" /\ call.done /\ call.ok
    /\ call.classes = [counter |-> "ScaleStore",
                       mirror |-> "NoInitialStateStore"]
    /\ state["counter"] = 2 /\ state["mirror"] = 0 - 1
    /\ state[Parent] = [counter |-> 2, mirror |-> 0 - 1]
\* The reducers a class declares, and the same in the order of their names.
Declared(c) == StoreClasses[cls[c]].handlers

InNameOrder(handlers) ==
    The({[i \in DOMAIN names |-> CHOOSE h \in hs : h.name = names[i]] :
            hs \in {Range(handlers)},
            names \in {SelectSeq(NameOrder,
                                 LAMBDA n : \E h \in Range(handlers) :
                                                h.name = n)}})

\* C14 as stated: a dispatch that returns leaves the store in the state
\* obtained by applying the matching reducers in the order the class
\* declares them.
C14_DeclarationOrder ==
    \A c \in Children :
        Returned(c) =>
            state[c] = FoldReducers(Matching(Declared(c), last.action),
                                    last.pre[c], last.action)

\* The registry of every store instance lists the reducers of its class in
\* the order of their attribute names, and the dispatch that has just
\* returned applied the matching reducers in that order.
NameOrdered ==
    \A c \in Children :
        /\ reducers[c] = InNameOrder(Declared(c))
        /\ Returned(c) =>
              state[c] = FoldReducers(Matching(reducers[c], last.action),
                                      last.pre[c], last.action)

\* C14 amended: after every dispatch, the registry of every store instance
\* lists the reducers of its class in the order of their attribute names,
\* and a dispatch that returns has applied the matching reducers in that
\* order.
C14_NameOrder == [][ndispatch' # ndispatch => NameOrdered']_vars

\* ScaleStore declares step (+1) before double (*2); Increment takes it
\* from 2 to 2*2+1 = 5, where the declaration order would give (2+1)*2 = 6.
C14_Witness ==
    /\ cls["counter"] = "ScaleStore"
    /\ Declared("counter")[1].name = "step"
    /\ Declared("counter")[2].name = "double"
    /\ Returned("counter") /\ last.action = "Increment"
    /\ last.pre["counter"] = 2
    /\ state["counter"] = 5
\* A reducer of the plain store c raised during the last call.
RaisedIn(c) ==
    \E i \in DOMAIN last.trace : last.trace[i] = Event("raise", c, 0)

\* C15: when a reducer of a plain store raises, the call does not return,
\* and the store is in the state the matching reducers before the failing
\* one produced from the state the dispatch started with: their results
\* stay, and the matching reducers after the failing one have not run.
C15_NoRollback ==
    \A c \in Children :
        RaisedIn(c) =>
            LET m == Matching(reducers[c], last.action)
            IN  /\ last.raised /\ last.ret = << >>
                /\ \E i \in DOMAIN m :
                      LET before == FoldReducers(SubSeq(m, 1, i - 1),
                                                 last.pre[c], last.action)
                      IN  /\ \A j \in 1..(i - 1) :
                                ~Raises(m[j].fn, last.pre[c], last.action)
                          /\ Raises(m[i].fn, before, last.action)
                          /\ state[c] = before

\* GuardedStore, Decrement: add (+1) has run and stays, validate raised,
\* widen (*2) has not run.
C15_Witness ==
    /\ cls["counter"] = "GuardedStore"
    /\ last.target = "counter" /\ last.action = "Decrement"
    /\ RaisedIn("counter") /\ last.raised
    /\ Len(Matching(reducers["counter"], "Decrement")) = 3
    /\ last.pre["counter"] = 1
    /\ state["counter"] = 2

\* The place of an event in the order C16 describes for a dispatch on the
\* combined store: the call itself; then for each substore in turn its
\* dispatch call, its state updates and its notifications; then the
\* update of the combined state; then the combined store's notifications.
Phase(e) ==
    LET base == IF e.store = Parent
                THEN IF e.ev = "dispatch"
                     THEN 0
                     ELSE 10 * (Len(ChildNames) + 1)
                ELSE 10 * ChildIndex(e.store)
    IN  base + (CASE e.ev = "dispatch" -> 0
                  [] e.ev = "set" -> 1
                  [] e.ev = "raise" -> 1
                  [] e.ev = "notify" -> 2)

InOrder(t) ==
    \A p \in 1..(Len(t) - 1) : Phase(t[p]) <= Phase(t[p + 1])

Count(t, e) == Cardinality({i \in DOMAIN t : t[i] = e})

\* Every notification in the trace carried the state its store has now
\* and the action of the call.
CarriesCurrentState(t) ==
    \A i \in DOMAIN t :
        t[i].ev = "notify" =>
            /\ pushed[t[i].sub] # << >>
            /\ Last(pushed[t[i].sub]) = <<state[t[i].store], last.action>>

EffectsInOrder ==
    /\ InOrder(last.trace)
    /\ \A c \in Children :
          /\ Count(last.trace, Event("dispatch", c, 0)) = 1
          /\ Last(hist[c]).action = last.action
          /\ ~Last(hist[c]).direct
    /\ Count(last.trace, Event("set", Parent, 0)) = 1
    /\ state[Parent] = combine_states([n \in Children |-> state[n]])
    /\ CarriesCurrentState(last.trace)

\* C16 as stated: every dispatch on the combined store forwards the action
\* to every substore, in order, and orders its effects as described.
C16_AsStated == last.target = Parent => EffectsInOrder

\* What the last call did, when it was a dispatch on the combined store:
\* the substores received the action in the order of the child map up to
\* the first one whose dispatch raised; when none raised, the effects are
\* in the order C16 describes.
ForwardedInOrder ==
    last.target = Parent =>
        /\ InOrder(last.trace)
        /\ ~last.raised => EffectsInOrder
        /\ last.raised =>
              \E k \in DOMAIN ChildNames :
                  /\ RaisedIn(ChildNames[k])
                  /\ \A i \in DOMAIN ChildNames :
                        Count(last.trace, Event("dispatch", ChildNames[i], 0))
                            = IF i <= k THEN 1 ELSE 0
                  /\ Count(last.trace, Event("set", Parent, 0)) = 0
                  /\ \A i \in DOMAIN last.trace :
                        ~(last.trace[i].ev = "notify"
                          /\ last.trace[i].store \in {Parent, ChildNames[k]})

\* C16 amended: a dispatch on the combined store forwards the action to
\* the substores in the order of the child map and stops at the first one
\* whose dispatch raises; when none raises every substore received the
\* action, and the effects are ordered: each substore in turn updates its
\* state and notifies its own subscriptions, then the combined state is
\* stored, then the combined store's subscriptions are notified with it.
C16_ForwardInOrder == [][ndispatch' # ndispatch => ForwardedInOrder']_vars

\* A dispatch on the combined store while a subscription of each substore
\* reached by the callers and of the combined store is live: both
\* substores stored a state, and both subscriptions were notified.
C16_Witness ==
    /\ last.target = Parent /\ ~last.raised
    /\ \A c \in Children : Count(last.trace, Event("set", c, 0)) >= 1
    /\ \E a, b \in SubIds :
          /\ Count(last.trace, Event("notify", ChildNames[1], a)) = 1
          /\ Count(last.trace, Event("notify", Parent, b)) = 1
\* A consumer is never suspended on an event that is not set while its
\* buffer holds an item.
NeverStuck ==
    \A sub \in SubIds :
        (pc[sub] = "waiting" /\ queue[sub] # << >>) =>
            notification_event[sub]

\* C17 as stated: no consumer is left suspended with a non-empty buffer,
\* and for every subscription every item pushed into the buffer is
\* eventually returned by a read: again and again the items read are all
\* the items pushed.
C17_AsStated ==
    /\ []NeverStuck
    /\ \A sub \in SubIds : []<>(got[sub] = pushed[sub])

\* a is b with some items left out.
RECURSIVE IsSubsequence(_, _)
IsSubsequence(a, b) ==
    IF a = << >>
    THEN TRUE
    ELSE IF b = << >>
         THEN FALSE
         ELSE IF Head(a) = Head(b)
              THEN IsSubsequence(Tail(a), Tail(b))
              ELSE IsSubsequence(a, Tail(b))

\* C17 amended: no consumer is left suspended with a non-empty buffer, and
\* every item pushed into the buffer and not displaced from it by a later
\* push is eventually returned by a read.  Again and again the buffer is
\* empty and, for an EVERY subscription, the items read are all the items
\* pushed, in the order they were pushed; for a LATEST subscription,
\* whose buffer keeps only the newest item, the items read are some of
\* the items pushed, in that order, ending with the newest one.
C17_NoLostWakeup ==
    /\ []NeverStuck
    /\ \A sub \in SubIds :
          []<>(/\ queue[sub] = << >>
               /\ IF strategy[sub] = EVERY
                  THEN got[sub] = pushed[sub]
                  ELSE /\ IsSubsequence(got[sub], pushed[sub])
                       /\ pushed[sub] # << >> =>
                             /\ got[sub] # << >>
                             /\ Last(got[sub]) = Last(pushed[sub]))

\* A consumer suspended in __anext__ has been pushed an item and not yet
\* been resumed, after it has already been woken and read once.
C17_Witness ==
    \E sub \in SubIds :
        /\ pc[sub] = "waiting"
        /\ queue[sub] # << >>
        /\ notification_event[sub]
        /\ got[sub] # << >>
\* C18: once a subscription has been removed from its store's live set,
\* no read of it returns an item: the items its consumer has received
\* stay as they are.
C18_NoItemAfterDeregistration ==
    [][\A sub \in SubIds :
         (Left(sub) /\ sub \notin Live(owner[sub])) =>
             got'[sub] = got[sub]]_vars
\* Some substore has been dispatched into directly.
HadDirect ==
    \E c \in Children : \E i \in DOMAIN hist[c] : hist[c][i].direct

Combination == combine_states([n \in Children |-> state[n]])

\* The subscriptions of a store that were live when its last notification
\* round took place and still are.
LiveSince(s) == {sub \in Live(s) : attachedAt[sub] < Len(log[s])}

\* What a dispatch made directly on the substore c changed and left alone.
DirectEffects(c) ==
    /\ state[c] = FoldReducers(Matching(reducers[c], last.action),
                               last.pre[c], last.action)
    /\ state[Parent] = last.pre[Parent]
    /\ \A i \in DOMAIN last.trace : last.trace[i].store = c

DirectNotifies(c) ==
    /\ log[c] # << >>
    /\ Last(log[c]) = <<state[c], last.action>>
    /\ \A sub \in LiveSince(c) :
          /\ Count(last.trace, Event("notify", c, sub)) = 1
          /\ Last(pushed[sub]) = <<state[c], last.action>>

\* What a dispatch on the combined store restores.
Resynchronised ==
    /\ state[Parent] = Combination
    /\ \A c \in Children :
          state[c] = FoldReducers(Matching(reducers[c], last.action),
                                  last.pre[c], last.action)

\* A dispatch made directly on a substore changes its state and, when it
\* returns, notifies its subscriptions, without touching the combined
\* store's state or subscriptions.
DirectLeavesParent ==
    \A c \in Children :
        last.target = c =>
            /\ DirectEffects(c)
            /\ ~last.raised => DirectNotifies(c)

\* C19 as stated: a direct dispatch on a substore leaves the combined store
\* alone, and after the next dispatch on the combined store the combined
\* state is the combination of the substores' current states.
C19_AsStated ==
    /\ DirectLeavesParent
    /\ (last.target = Parent /\ HadDirect) => Resynchronised

\* C19 amended: the same, where the combined state is restored by the next
\* dispatch on the combined store that returns.
C19_DesyncUntilParentDispatch ==
    /\ DirectLeavesParent
    /\ (last.target = Parent /\ HadDirect /\ ~last.raised) =>
          Resynchronised

\* After a direct dispatch the combined state was stale; the dispatch on
\* the combined store that followed combined the substores' states,
\* the direct dispatch's effect included.
C19_Witness ==
    /\ last.target = Parent /\ ~last.raised
    /\ hist["counter"] # << >> /\ hist["counter"][1].direct
    /\ last.pre[Parent] #
          combine_states([n \in Children |-> last.pre[n]])
    /\ state[Parent] = Combination
    /\ state["counter"] # initial["counter"]
\* The dispatch call the store s received in this step raised.
DispatchRaised(s) == Dispatched(s) /\ Last(hist'[s]).raised

\* C20: a step in which a store's dispatch raises appends nothing to the
\* buffer of any subscription of that store, also when earlier reducers
\* have changed the state; and whenever a subscription is pushed an item,
\* its store's dispatch has returned in that step and the item is the
\* state it returned with the action.
C20_RaisingDispatchNotifiesNobody ==
    [][/\ \A s \in Stores :
            DispatchRaised(s) =>
                \A sub \in SubIds :
                    (scope[sub] # "none" /\ owner[sub] = s) =>
                        /\ pushed'[sub] = pushed[sub]
                        /\ queue'[sub] = queue[sub]
       /\ \A sub \in SubIds :
            pushed'[sub] # pushed[sub] =>
                /\ Dispatched(owner[sub])
                /\ ~Last(hist'[owner[sub]]).raised
                /\ pushed'[sub] =
                     Append(pushed[sub],
                            <<state'[owner[sub]],
                              Last(hist'[owner[sub]]).action>>)
      ]_vars

\* A subscription of a GuardedStore was pushed the pair of an Increment;
\* then Decrement raised after add had changed the state, and the
\* subscription, still live, was pushed nothing more.
C20_Witness ==
    \E sub \in SubIds :
        /\ Attached(sub) /\ owner[sub] = "counter"
        /\ cls["counter"] = "GuardedStore"
        /\ Len(hist["counter"]) = 2
        /\ ~hist["counter"][1].raised /\ hist["counter"][2].raised
        /\ RaisedIn("counter")
        /\ state["counter"] # last.pre["counter"]
        /\ Len(pushed[sub]) = 1
        /\ pushed[sub][1] = <<last.pre["counter"], "Increment">>
====
